---- MODULE Spec2Model ----
(***************************************************************************)
(* LEEA: hazard aggregation -> portfolio exposure -> resilient briefing.   *)
(* A model of app/agent.py (run_cycle, schedule) and of the tools it calls *)
(* (portfolio_tool, earthquake_tool, alerts_tool, news_tool).              *)
(*                                                                         *)
(* Abstractions, stated once:                                              *)
(*  - coordinates are integer degrees; a geometry is the set of integer    *)
(*    grid points it covers, so shapely's union is set union and           *)
(*    prepared_poly.intersects(pt) is membership;                          *)
(*  - insured values are integers, and the float exposure_ratio is the     *)
(*    exact fraction <<numerator, denominator>>;                           *)
(*  - a CSV cell is its text class: a number, a blank or other text;       *)
(*  - text is a sequence of lines, each line a record of its fixed text    *)
(*    and the values formatted into it.                                    *)
(***************************************************************************)
EXTENDS Integers, Sequences, FiniteSets, TLC

\* ------------------------------------------------------------------ bounds
\* rows of a portfolio file
MaxRows == 2

\* ------------------------------------------------------- generic helpers
Range(s) == {s[i] : i \in 1..Len(s)}

Min2(a, b) == IF a <= b THEN a ELSE b

RECURSIVE SetMin(_)
SetMin(S) ==
  LET x == CHOOSE y \in S : TRUE
  IN  IF S = {x} THEN x ELSE Min2(x, SetMin(S \ {x}))

RECURSIVE SetMax(_)
SetMax(S) ==
  LET x == CHOOSE y \in S : TRUE
  IN  IF S = {x} THEN x
      ELSE LET m == SetMax(S \ {x}) IN IF x >= m THEN x ELSE m

\* all sequences over S of length 0..n
RECURSIVE SeqsUpTo(_, _)
SeqsUpTo(S, n) ==
  IF n = 0 THEN {<<>>}
  ELSE LET shorter == SeqsUpTo(S, n - 1)
       IN  shorter \cup {Append(s, x) : s \in {t \in shorter : Len(t) = n - 1}, x \in S}

Perms(n) == {p \in [1..n -> 1..n] : \A i, j \in 1..n : i # j => p[i] # p[j]}

\* ------------------------------------------------- portfolio_tool.py
\* A CSV cell as pandas reads it.
NumCell(n) == [text |-> "num", v |-> n]
BlankCell == [text |-> "blank", v |-> 0]
TextCell == [text |-> "text", v |-> 0]

\* A coerced value: a float or NaN.
Num(n) == [num |-> TRUE, v |-> n]
NaN == [num |-> FALSE, v |-> 0]

\* pd.to_numeric(column, errors="coerce"), cell by cell
to_numeric(cell) == IF cell.text = "num" THEN Num(cell.v) ELSE NaN

\* Series.fillna(0.0)
fillna(x) == IF x.num THEN x ELSE Num(0)

required == {"PropertyID", "Latitude", "Longitude", "TotalInsuredValue"}

\* rows kept by head(10)
TopN == 10

\* lines 54-60: coerce the three numeric columns, drop rows with a NaN coordinate
CoerceRow(r) ==
  [PropertyID |-> r.PropertyID,
   Latitude |-> to_numeric(r.Latitude),
   Longitude |-> to_numeric(r.Longitude),
   TotalInsuredValue |-> fillna(to_numeric(r.TotalInsuredValue))]

HasCoords(r) == r.Latitude.num /\ r.Longitude.num

\* dropna that drops nothing
dropna_keep_all(rows) == rows

dropna(rows) == SelectSeq(rows, HasCoords)

CoerceAll(rows) == [i \in 1..Len(rows) |-> CoerceRow(rows[i])]

\* prepared_poly.intersects(Point(lon, lat))
intersects(poly, lon, lat) == <<lon, lat>> \in poly

IsExposed(poly, r) == intersects(poly, r.Longitude.v, r.Latitude.v)

RECURSIVE SumTIV(_)
SumTIV(rows) ==
  IF rows = <<>> THEN 0
  ELSE rows[1].TotalInsuredValue.v + SumTIV(Tail(rows))

\* exposed_df.sort_values("TotalInsuredValue", ascending=False): pandas' default
\* kind is quicksort, which is not a stable sort, so every descending
\* arrangement of the rows is an outcome (ties in any order).
sort_values(rows) ==
  {[i \in 1..Len(rows) |-> rows[p[i]]] : p \in
     {q \in Perms(Len(rows)) :
        \A i \in 1..(Len(rows) - 1) :
          rows[q[i]].TotalInsuredValue.v >= rows[q[i + 1]].TotalInsuredValue.v}}

head(rows, n) == SubSeq(rows, 1, Min2(n, Len(rows)))

top_record(r) ==
  [PropertyID |-> r.PropertyID,
   Latitude |-> r.Latitude.v,
   Longitude |-> r.Longitude.v,
   TotalInsuredValue |-> r.TotalInsuredValue.v]

None == <<>>

\* (min lon, min lat, max lon, max lat), or None for no points
compute_bounds(lats, lons) ==
  IF lats = {} \/ lons = {} THEN None
  ELSE <<SetMin(lons), SetMin(lats), SetMax(lons), SetMax(lats)>>

\* The summary for one outcome `sorted` of the sort.
ExposureSummary(df, exposed_df, sorted) ==
  LET tiv_total == SumTIV(df)
      tiv_exposed == SumTIV(exposed_df)
      top == head(sorted, TopN)
  IN  [asset_count_total |-> Len(df),
       asset_count_exposed |-> Len(exposed_df),
       total_insured_value_total |-> tiv_total,
       total_insured_value_exposed |-> tiv_exposed,
       exposure_ratio |-> IF tiv_total > 0 THEN <<tiv_exposed, tiv_total>> ELSE <<0, 1>>,
       bounds |-> IF exposed_df = <<>> THEN None
                  ELSE compute_bounds({r.Latitude.v : r \in Range(exposed_df)},
                                      {r.Longitude.v : r \in Range(exposed_df)}),
       top_exposed |-> [i \in 1..Len(top) |-> top_record(top[i])]]

\* compute_portfolio_exposure without the check of the required columns
compute_portfolio_exposure_unchecked(csv, cone_feature) ==
  IF ~csv.readable THEN {[raised |-> TRUE, error |-> "read_csv"]}
  ELSE
    LET df == dropna(CoerceAll(csv.rows))
        poly == cone_feature.geometry
        exposed_df == SelectSeq(df, LAMBDA r : IsExposed(poly, r))
    IN  {[raised |-> FALSE, exposure |-> ExposureSummary(df, exposed_df, s)] :
           s \in sort_values(exposed_df)}

\* compute_portfolio_exposure(portfolio_csv, cone_feature_json): the set of its
\* outcomes. A file pandas cannot read, or one without a required column, raises.
compute_portfolio_exposure(csv, cone_feature) ==
  IF ~csv.readable THEN {[raised |-> TRUE, error |-> "read_csv"]}
  ELSE IF required \ csv.columns # {} THEN {[raised |-> TRUE, error |-> "ValueError"]}
  ELSE
    LET df == dropna(CoerceAll(csv.rows))
        poly == cone_feature.geometry
        exposed_df == SelectSeq(df, LAMBDA r : IsExposed(poly, r))
    IN  {[raised |-> FALSE, exposure |-> ExposureSummary(df, exposed_df, s)] :
           s \in sort_values(exposed_df)}

\* ------------------------------------------------- grid geometry
\* largest coordinate of the grid (degrees)
GridMax == 2

Grid == (0..GridMax) \X (0..GridMax)

\* Point(lon, lat).buffer(km / 111.0): the grid points within km kilometres,
\* at 111 km to the degree
buffer(lon, lat, km) ==
  {g \in Grid :
     12321 * ((g[1] - lon) * (g[1] - lon) + (g[2] - lat) * (g[2] - lat)) <= km * km}

\* unary_union(geoms): the points of any of the geometries
unary_union(geoms) == UNION {geoms[i] : i \in 1..Len(geoms)}

\* a Python None among text values, and the values Python treats as false
PyNone == "None"

Falsy(s) == s = PyNone \/ s = ""

\* ------------------------------------------------- earthquake_tool.py
\* _feed_for(min_magnitude, window); magnitudes are in tenths
feed_for(min_magnitude, window) ==
  LET win == IF window \in {"hour", "day", "week", "month"} THEN window ELSE "day"
  IN  IF min_magnitude >= 70
        THEN [url |-> "significant_" \o win \o ".geojson",
              label |-> "USGS Significant Earthquakes (" \o win \o ")"]
      ELSE IF min_magnitude >= 45
        THEN [url |-> "4.5_" \o win \o ".geojson",
              label |-> "USGS M4.5+ Earthquakes (" \o win \o ")"]
      ELSE IF min_magnitude >= 25
        THEN [url |-> "2.5_" \o win \o ".geojson",
              label |-> "USGS M2.5+ Earthquakes (" \o win \o ")"]
      ELSE [url |-> "all_" \o win \o ".geojson",
            label |-> "USGS All Earthquakes (" \o win \o ")"]

\* _buffer_km_for_mag with the breakpoints themselves in the lower step
buffer_km_above_mag(m) ==
  IF m > 70 THEN 200
  ELSE IF m > 60 THEN 125
  ELSE IF m > 50 THEN 75
  ELSE IF m > 40 THEN 50
  ELSE 25

\* _buffer_km_for_mag(m), m in tenths of a magnitude
buffer_km_for_mag(m) ==
  IF m >= 70 THEN 200
  ELSE IF m >= 60 THEN 125
  ELSE IF m >= 50 THEN 75
  ELSE IF m >= 40 THEN 50
  ELSE 25

\* float((f.get("properties") or {}).get("mag") or 0.0), 0.0 when float() raises
mag_of(f) == IF f.mag.kind = "num" THEN f.mag.v ELSE 0

\* lines 70-75: the features that get a buffer
IsBuffered(f) == f.gtype = "Point" /\ Len(f.coordinates) >= 2

\* float(coords[0]), float(coords[1]) raises for a coordinate that is no number
CoordsRaise(f) == ~f.coordinates[1].ok \/ ~f.coordinates[2].ok

\* features returned by fetch_recent_earthquakes
EqCap == 200

\* fetch_recent_earthquakes(min_magnitude, window, region_bbox=None) on the HTTP
\* layer's answer resp: an error, or the feed's features
fetch_recent_earthquakes(min_magnitude, window, resp, now) ==
  IF resp.error THEN [raised |-> TRUE, error |-> "http"]
  ELSE
    LET feats == resp.features
        used == SelectSeq(feats, IsBuffered)
        buffers == [i \in 1..Len(used) |->
                      buffer(used[i].coordinates[1].v, used[i].coordinates[2].v,
                             buffer_km_for_mag(mag_of(used[i])))]
        feed == feed_for(min_magnitude, window)
    IN  IF \E i \in 1..Len(used) : CoordsRaise(used[i])
          THEN [raised |-> TRUE, error |-> "float"]
        ELSE [raised |-> FALSE,
              fetched_at |-> now,
              source_title |-> feed.label,
              source_url |-> feed.url,
              count |-> Len(feats),
              feature_union |->
                IF buffers # <<>>
                  THEN [present |-> TRUE,
                        geometry |-> unary_union(buffers),
                        properties |-> [source |-> "USGS",
                                        min_magnitude |-> min_magnitude,
                                        window |-> window,
                                        count |-> Len(buffers)]]
                ELSE [present |-> FALSE],
              features |-> head(feats, EqCap)]

\* ------------------------------------------------- alerts_tool.py
\* text whose characters matter (the monitor region, the area code) is a
\* sequence of characters; NoneStr is Python's None among such values
NoneStr == <<"<None>">>

Truthy(s) == s # NoneStr /\ s # <<>>

upper_char(c) ==
  IF c = "f" THEN "F" ELSE IF c = "l" THEN "L" ELSE IF c = "a" THEN "A" ELSE c

upper(s) == [i \in 1..Len(s) |-> upper_char(s[i])]

RECURSIVE lstrip(_)
lstrip(s) == IF s # <<>> /\ s[1] = " " THEN lstrip(Tail(s)) ELSE s

RECURSIVE rstrip(_)
rstrip(s) ==
  IF s # <<>> /\ s[Len(s)] = " " THEN rstrip(SubSeq(s, 1, Len(s) - 1)) ELSE s

strip(s) == rstrip(lstrip(s))

RECURSIVE join(_)
join(s) == IF s = <<>> THEN "" ELSE s[1] \o join(Tail(s))

\* the "limit" query parameter
AlertsLimit == 200

\* _build_params(event, area)
build_params(event, area) ==
  [status |-> "actual",
   limit |-> AlertsLimit,
   event |-> IF Falsy(event) THEN PyNone ELSE event,
   area |-> IF Truthy(area) /\ Len(area) = 2 THEN upper(area) ELSE NoneStr]

\* lines 29-36: a feature is merged when it has a geometry that shape() accepts
IsMerged(f) == f.geometry.kind = "poly"

\* _union_features without the test of line 38: a Feature is built from whatever
\* was collected, even from nothing
union_features_always(features) ==
  LET kept == SelectSeq(features, IsMerged)
      geoms == [i \in 1..Len(kept) |-> kept[i].geometry.pts]
  IN  [present |-> TRUE,
       geometry |-> unary_union(geoms),
       properties |->
         [source |-> "NWS Alerts",
          merged_count |-> Len(geoms),
          events |-> {f.event : f \in {g \in Range(kept) : ~Falsy(g.event)}},
          severities |-> {f.severity : f \in {g \in Range(kept) : ~Falsy(g.severity)}}]]

\* _union_features(features)
union_features(features) ==
  LET kept == SelectSeq(features, IsMerged)
      geoms == [i \in 1..Len(kept) |-> kept[i].geometry.pts]
  IN  IF geoms = <<>> THEN [present |-> FALSE]
      ELSE [present |-> TRUE,
            geometry |-> unary_union(geoms),
            properties |->
              [source |-> "NWS Alerts",
               merged_count |-> Len(geoms),
               events |-> {f.event : f \in {g \in Range(kept) : ~Falsy(g.event)}},
               severities |-> {f.severity : f \in {g \in Range(kept) : ~Falsy(g.severity)}}]]

\* features returned by fetch_active_alerts
AlertsCap == 50

\* fetch_active_alerts with the footprint built from the capped features
fetch_active_alerts_capped_union(event, area, resp, now) ==
  LET params == build_params(event, area)
  IN  IF resp.error THEN [raised |-> TRUE, error |-> "http"]
      ELSE [raised |-> FALSE,
            fetched_at |-> now,
            source_title |-> "NWS Active Alerts",
            query |-> params,
            count |-> Len(resp.features),
            feature_union |-> IF resp.features # <<>>
                                THEN union_features(head(resp.features, AlertsCap))
                              ELSE [present |-> FALSE],
            features |-> head(resp.features, AlertsCap)]

\* fetch_active_alerts(event, area) on the HTTP layer's answer resp
fetch_active_alerts(event, area, resp, now) ==
  LET params == build_params(event, area)
  IN  IF resp.error THEN [raised |-> TRUE, error |-> "http"]
      ELSE [raised |-> FALSE,
            fetched_at |-> now,
            source_title |-> "NWS Active Alerts",
            query |-> params,
            count |-> Len(resp.features),
            feature_union |-> IF resp.features # <<>> THEN union_features(resp.features)
                              ELSE [present |-> FALSE],
            features |-> head(resp.features, AlertsCap)]

\* ------------------------------------------------- news_tool.py
\* fetch_live_news(query_terms, region_hint, page_size) with the configured key
\* and the HTTP layer's answer resp
fetch_live_news(query_terms, region_hint, page_size, key, resp, now) ==
  IF Falsy(key) THEN [raised |-> TRUE, error |-> "NEWSAPI_KEY"]
  ELSE IF resp.error THEN [raised |-> TRUE, error |-> "http"]
  ELSE IF resp.status # "ok" THEN [raised |-> TRUE, error |-> "NewsAPI error"]
  ELSE [raised |-> FALSE,
        queried_at |-> now,
        query |-> [terms |-> query_terms,
                   region |-> IF Truthy(region_hint) THEN region_hint ELSE NoneStr],
        count |-> Len(resp.articles),
        articles |-> [i \in 1..Len(resp.articles) |->
                        [source |-> resp.articles[i].source,
                         title |-> resp.articles[i].title,
                         url |-> resp.articles[i].url,
                         publishedAt |-> resp.articles[i].publishedAt,
                         parsed |-> IF Falsy(resp.articles[i].url)
                                      THEN [title |-> PyNone, publish_date |-> PyNone]
                                    ELSE resp.articles[i].parsed]]]

\* ------------------------------------------------- briefing text (agent.py)
Line(text, args) == [text |-> text, args |-> args]

\* f"{x:,.0f}" and f"{x:.3f}" of a whole number, f"{r:.2%}" of a fraction
\* (in hundredths of a percent)
fmt_num(x) == ToString(x)

fmt_pct(r) == ToString((10000 * r[1]) \div r[2])

\* top[:5] and feats[:5]
BriefTop == 5

\* news["articles"][:10]
NewsTop == 10

\* the set S in each order a Python list(set) can have
OrderingsOf(S) ==
  {o \in SeqsUpTo(S, Cardinality(S)) : Len(o) = Cardinality(S) /\ Range(o) = S}

\* lines 164-169 and 217-222
ExposureLines(exp) ==
  <<Line("## Exposure", <<>>),
    Line("Exposed assets: {}/{} | Exposed TIV: ${} of ${} (ratio {})",
         <<fmt_num(exp.asset_count_exposed), fmt_num(exp.asset_count_total),
           fmt_num(exp.total_insured_value_exposed),
           fmt_num(exp.total_insured_value_total),
           fmt_pct(exp.exposure_ratio)>>)>>

\* lines 170-175
TopLines(top) ==
  IF top = <<>> THEN <<>>
  ELSE <<Line("", <<>>), Line("Top exposed (by TIV):", <<>>)>>
       \o [i \in 1..Len(head(top, BriefTop)) |->
             Line("- {} (${}) @ ({}, {})",
                  <<fmt_num(top[i].PropertyID), fmt_num(top[i].TotalInsuredValue),
                    fmt_num(top[i].Latitude), fmt_num(top[i].Longitude)>>)]

\* lines 179-187
QuakeBullet(f) ==
  LET place == IF Falsy(f.place) THEN "Unknown" ELSE f.place
      mag_s == IF f.mag.kind = "none" THEN "M?" ELSE "M" \o fmt_num(f.mag.v)
  IN  IF Falsy(f.url) THEN Line("- {} - {}", <<mag_s, place>>)
      ELSE Line("- [{} - {}]({})", <<mag_s, place, f.url>>)

\* lines 156-192: the briefing of FALLBACK_SEISMIC
EqBriefing(eq, exp, now) ==
  <<Line("# LEEA Briefing (Earthquakes)", <<>>),
    Line("", <<>>),
    Line("Generated at: {}", <<fmt_num(now)>>),
    Line("", <<>>),
    Line("## Event Status", <<>>),
    Line("{} | Events: {}", <<eq.source_title, fmt_num(eq.count)>>),
    Line("", <<>>)>>
  \o ExposureLines(exp)
  \o TopLines(exp.top_exposed)
  \o <<Line("", <<>>), Line("## Intelligence", <<>>)>>
  \o [i \in 1..Len(head(eq.features, BriefTop)) |-> QuakeBullet(eq.features[i])]
  \o <<Line("", <<>>),
       Line("## Next Actions", <<>>),
       Line("- Monitor USGS for aftershocks and updates; re-run exposure if hazard changes.", <<>>),
       Line("- If exposure is material, prepare notifications to stakeholders.", <<>>)>>

\* lines 207-226: the briefing of FALLBACK_ALERTS; events is the order in which
\* the union's event set is listed
AlertsBriefing(alerts, area, exp, events, now) ==
  <<Line("# LEEA Briefing (NWS Alerts)", <<>>),
    Line("", <<>>),
    Line("Generated at: {}", <<fmt_num(now)>>),
    Line("", <<>>),
    Line("## Event Status", <<>>),
    Line("Active NWS alerts: {} | Events: {}", <<fmt_num(alerts.count)>> \o events)>>
  \o (IF Truthy(area) THEN <<Line("Area filter: {}", <<join(area)>>)>> ELSE <<>>)
  \o <<Line("", <<>>)>>
  \o ExposureLines(exp)
  \o <<Line("", <<>>),
       Line("## Next Actions", <<>>),
       Line("- Monitor NWS alerts for changes; re-run exposure if polygons update.", <<>>)>>

\* lines 247-252
ArticleBullet(a) ==
  LET title == IF ~Falsy(a.title) THEN a.title
               ELSE IF ~Falsy(a.parsed.title) THEN a.parsed.title ELSE "Untitled"
      source == IF Falsy(a.source) THEN "?" ELSE a.source
      pub == IF ~Falsy(a.publishedAt) THEN a.publishedAt
             ELSE IF ~Falsy(a.parsed.publish_date) THEN a.parsed.publish_date ELSE ""
  IN  IF Falsy(a.url) THEN Line("- {} - {} {}", <<title, source, pub>>)
      ELSE Line("- [{}]({}) - {} {}", <<title, a.url, source, pub>>)

NoArticlesLine == Line("- No articles returned from NewsAPI.", <<>>)

\* lines 236-258: the briefing of FALLBACK_NEWS
NewsBriefing(articles, now) ==
  <<Line("# LEEA Briefing (news-only)", <<>>),
    Line("", <<>>),
    Line("Generated at: {}", <<fmt_num(now)>>),
    Line("", <<>>),
    Line("## Event Status", <<>>),
    Line("Autonomous agent failed; showing recent coverage relevant to earthquakes.", <<>>),
    Line("", <<>>),
    Line("## Intelligence (recent coverage)", <<>>)>>
  \o (IF articles # <<>>
        THEN [i \in 1..Len(head(articles, NewsTop)) |-> ArticleBullet(articles[i])]
      ELSE <<NoArticlesLine>>)
  \o <<Line("", <<>>),
       Line("## Next Actions", <<>>),
       Line("- Verify API keys and try again.", <<>>)>>

\* ------------------------------------------------- bounds of the state machine
\* pool threads of the scheduler's executor
NumWorkers == 2

\* cycles started in one run of the process
MaxCycles == 2

\* fire times that can pass before the scheduler thread processes them
MaxDue == 2

\* seconds of the clock
MaxClock == 1

\* ------------------------------------------------- what the environment supplies
Coord(n) == [ok |-> TRUE, v |-> n]

BadCoordValue == [ok |-> FALSE, v |-> 0]

Quake(lon, lat, mag, place, url) ==
  [gtype |-> "Point", coordinates |-> <<Coord(lon), Coord(lat), Coord(10)>>,
   mag |-> mag, place |-> place, url |-> url]

Mag(m) == [kind |-> "num", v |-> m]

NoMag == [kind |-> "none", v |-> 0]

QuakeA == Quake(1, 1, Mag(45), "10km S of A", "http://usgs/a")

QuakeBig == Quake(0, 0, Mag(72), PyNone, "")

QuakeNoGeometry ==
  [gtype |-> "None", coordinates |-> <<>>, mag |-> NoMag, place |-> "B", url |-> ""]

QuakeBadCoordinate ==
  [gtype |-> "Point", coordinates |-> <<BadCoordValue, Coord(1)>>,
   mag |-> Mag(50), place |-> "C", url |-> ""]

\* answers of http_client.get_json for the USGS feed
EqResponses ==
  {[error |-> TRUE, features |-> <<>>]}
  \cup {[error |-> FALSE, features |-> f] :
          f \in {<<>>, <<QuakeNoGeometry, QuakeBig, QuakeA>>, <<QuakeNoGeometry>>,
                 <<QuakeBadCoordinate>>}}

AlertPoly ==
  [geometry |-> [kind |-> "poly", pts |-> {<<0, 0>>, <<0, 1>>}],
   event |-> "Flood Warning", severity |-> "Severe"]

AlertNoGeometry ==
  [geometry |-> [kind |-> "none", pts |-> {}], event |-> "Flood Warning", severity |-> PyNone]

AlertBadGeometry ==
  [geometry |-> [kind |-> "bad", pts |-> {}], event |-> PyNone, severity |-> "Minor"]

\* answers of http_client.get_json for the NWS alerts
AlertResponses ==
  {[error |-> TRUE, features |-> <<>>]}
  \cup {[error |-> FALSE, features |-> f] :
          f \in {<<>>, <<AlertNoGeometry, AlertBadGeometry>>,
                 <<AlertPoly, AlertNoGeometry, AlertPoly>>}}

Article(title, url, parsedTitle) ==
  [source |-> "Wire", title |-> title, url |-> url, publishedAt |-> PyNone,
   parsed |-> [title |-> parsedTitle, publish_date |-> PyNone]]

\* answers of http_client.get_json for NewsAPI
NewsResponses ==
  {[error |-> TRUE, status |-> "", articles |-> <<>>],
   [error |-> FALSE, status |-> "error", articles |-> <<>>],
   [error |-> FALSE, status |-> "ok", articles |-> <<>>],
   [error |-> FALSE, status |-> "ok",
    articles |-> <<Article("Quake hits", "http://news/1", PyNone), Article(PyNone, "", PyNone)>>]}

\* what executor.invoke does: raise, or return a dict whose "output" is text,
\* empty or missing; tools lists the tools the agent called on the way
AgentOutcomes ==
  {[raised |-> TRUE, output |-> PyNone, tools |-> <<>>],
   [raised |-> TRUE, output |-> PyNone, tools |-> <<"Earthquake_Data_Tool">>]}
  \cup {[raised |-> FALSE, output |-> o,
          tools |-> <<"Earthquake_Data_Tool", "Portfolio_Exposure_Tool", "Live_News_Tool">>] :
          o \in {PyNone, "", "Agent briefing"}}

Row(id, lat, lon, tiv) ==
  [PropertyID |-> id, Latitude |-> lat, Longitude |-> lon, TotalInsuredValue |-> tiv]

Csv(readable, columns, rows) == [readable |-> readable, columns |-> columns, rows |-> rows]

PortfolioUnreadable == Csv(FALSE, {}, <<>>)

PortfolioNoColumn == Csv(TRUE, required \ {"TotalInsuredValue"}, <<>>)

PortfolioGood ==
  Csv(TRUE, required \cup {"Name"},
      <<Row(1, NumCell(0), NumCell(0), NumCell(5)), Row(2, NumCell(1), NumCell(1), TextCell)>>)

\* the portfolio files of the cycles
CyclePortfolios == {PortfolioUnreadable, PortfolioNoColumn, PortfolioGood}

\* settings.monitor_region
Regions ==
  {<<"F", "l", "o", "r", "i", "d", "a">>, <<"F", "L">>, <<" ", "f", "l">>, <<>>}

\* the configurations of a run: run_once, monitor_region, newsapi_key and the
\* portfolio file; every one of them for a single cycle, one under the scheduler
Configs ==
  ({TRUE} \X Regions \X {PyNone, "key"} \X CyclePortfolios)
  \cup {<<FALSE, <<"F", "l", "o", "r", "i", "d", "a">>, PyNone, PortfolioNoColumn>>}

\* ------------------------------------------------- state
VARIABLES
  settings,     \* app.utils.config.settings: run_once, monitor_region, newsapi_key
  portfolio,    \* the file at settings.portfolio_csv
  now,          \* the clock, in seconds
  files,        \* the briefings directory: file name -> text
  writes,       \* number of files written so far
  sched,        \* where schedule() is
  due,          \* fire times of the interval trigger not yet processed
  instances,    \* running instances of the job "leea-cycle"
  cycles,       \* cycles started
  runs,         \* per thread: run times its job run still has to serve
  submitted,    \* what became of the job run the scheduler thread processed last
  pc,           \* per thread: the state of its run_cycle
  status,       \* per thread: run_cycle's status
  output_text,  \* per thread: run_cycle's output_text
  visited,      \* per thread: the states attempted in this cycle, in order
  calls,        \* per thread: the collaborators called in this cycle, in order
  obs,          \* per thread: what each collaborator did in this cycle
  outcome,      \* per thread: what run_cycle returned
  cone,         \* the footprint given to compute_portfolio_exposure
  result,       \* what compute_portfolio_exposure returned
  call,         \* a call of one of the hazard tools' functions: its arguments
  ret           \* what that call returned

vars ==
  <<settings, portfolio, now, files, writes, sched, due, instances, cycles, runs, submitted, pc,
    status, output_text, visited, calls, obs, outcome, cone, result, call, ret>>

schedVars == <<sched, due, instances, cycles, runs, submitted>>

cycleVars == <<pc, status, output_text, visited, calls, obs, outcome>>

toolVars == <<call, ret>>

\* thread 0 is the main thread, the others the executor's pool
Threads == 0..NumWorkers

Pool == 1..NumWorkers

NoObs ==
  [build |-> "-", agent |-> "-", eq |-> "-", eq_exposure |-> "-", alerts |-> "-",
   alerts_exposure |-> "-", area |-> NoneStr, news |-> "-"]

NoOutcome == [returned |-> FALSE]

NoResult == [raised |-> FALSE, pending |-> TRUE]

NoCone == [present |-> FALSE]

NoCall == [tool |-> "-"]

NoRet == [pending |-> TRUE]

IdleThreads ==
  /\ pc = [t \in Threads |-> "idle"]
  /\ status = [t \in Threads |-> PyNone]
  /\ output_text = [t \in Threads |-> <<>>]
  /\ visited = [t \in Threads |-> <<>>]
  /\ calls = [t \in Threads |-> <<>>]
  /\ obs = [t \in Threads |-> NoObs]
  /\ outcome = [t \in Threads |-> NoOutcome]
  /\ runs = [t \in Threads |-> 0]

Init ==
  /\ \E c \in Configs :
       /\ settings = [run_once |-> c[1], monitor_region |-> c[2], newsapi_key |-> c[3]]
       /\ portfolio = c[4]
  /\ now = 0
  /\ files = <<>>
  /\ writes = 0
  /\ sched = "init"
  /\ due = 0
  /\ instances = 0
  /\ cycles = 0
  /\ submitted = "-"
  /\ IdleThreads
  /\ cone = NoCone
  /\ result = NoResult
  /\ call = NoCall
  /\ ret = NoRet

\* ------------------------------------------------- run_cycle (agent.py 130-271)
\* run_cycle is entered on thread w
StartCycle(w) ==
  /\ pc' = [pc EXCEPT ![w] = "build_agent"]
  /\ status' = [status EXCEPT ![w] = PyNone]
  /\ output_text' = [output_text EXCEPT ![w] = <<>>]
  /\ visited' = [visited EXCEPT ![w] = <<"PRIMARY">>]
  /\ calls' = [calls EXCEPT ![w] = <<>>]
  /\ obs' = [obs EXCEPT ![w] = NoObs]
  /\ outcome' = [outcome EXCEPT ![w] = NoOutcome]
  /\ cycles' = cycles + 1

\* Advance with the handler of FALLBACK_ALERTS missing: the failure of that state
\* leaves run_cycle
AdvanceAlertsUncaught(w, next, o, c) ==
  /\ pc' = [pc EXCEPT ![w] = IF next = "FALLBACK_NEWS" THEN "raised" ELSE next]
  /\ visited' = [visited EXCEPT ![w] = IF next = "FALLBACK_NEWS" THEN @ ELSE Append(@, next)]
  /\ obs' = [obs EXCEPT ![w] = o]
  /\ calls' = [calls EXCEPT ![w] = @ \o c]
  /\ UNCHANGED <<status, output_text, outcome>>

\* a strategy failed: the except clause of its try enters the next state
Advance(w, next, o, c) ==
  /\ pc' = [pc EXCEPT ![w] = next]
  /\ visited' = [visited EXCEPT ![w] = Append(@, next)]
  /\ obs' = [obs EXCEPT ![w] = o]
  /\ calls' = [calls EXCEPT ![w] = @ \o c]
  /\ UNCHANGED <<status, output_text, outcome>>

\* Succeed with control falling into the news state after a strategy other
\* than the news one has set output_text and status
SucceedFallThrough(w, st, text, o, c) ==
  LET next == IF st = "ok_news" THEN "DONE" ELSE "FALLBACK_NEWS"
  IN  /\ pc' = [pc EXCEPT ![w] = next]
      /\ visited' = [visited EXCEPT ![w] = Append(@, next)]
      /\ status' = [status EXCEPT ![w] = st]
      /\ output_text' = [output_text EXCEPT ![w] = text]
      /\ obs' = [obs EXCEPT ![w] = o]
      /\ calls' = [calls EXCEPT ![w] = @ \o c]
      /\ UNCHANGED outcome

\* a strategy set output_text and status: control leaves the try statement
Succeed(w, st, text, o, c) ==
  /\ pc' = [pc EXCEPT ![w] = "DONE"]
  /\ visited' = [visited EXCEPT ![w] = Append(@, "DONE")]
  /\ status' = [status EXCEPT ![w] = st]
  /\ output_text' = [output_text EXCEPT ![w] = text]
  /\ obs' = [obs EXCEPT ![w] = o]
  /\ calls' = [calls EXCEPT ![w] = @ \o c]
  /\ UNCHANGED outcome

\* line 131: executor = build_agent(), outside every try: when ChatOpenAI or the
\* agent constructor raises, the exception leaves run_cycle
BuildAgent(w) ==
  /\ pc[w] = "build_agent"
  /\ \E ok \in BOOLEAN :
       IF ok
         THEN /\ pc' = [pc EXCEPT ![w] = "invoke"]
              /\ obs' = [obs EXCEPT ![w].build = "ok"]
       ELSE /\ pc' = [pc EXCEPT ![w] = "raised"]
            /\ obs' = [obs EXCEPT ![w].build = "raised"]
  /\ UNCHANGED <<status, output_text, visited, calls, outcome>>
  /\ UNCHANGED <<settings, portfolio, now, files, writes, schedVars, cone, result, toolVars>>

\* line 144: output_text = result.get("output") or ""
agent_output_text(output) == IF Falsy(output) THEN <<>> ELSE <<Line(output, <<>>)>>

\* lines 142-148: PRIMARY
Primary(w) ==
  /\ pc[w] = "invoke"
  /\ \E a \in AgentOutcomes :
       IF a.raised
         THEN Advance(w, "FALLBACK_SEISMIC", [obs[w] EXCEPT !.agent = "raised"],
                      <<"agent">> \o a.tools)
       ELSE Succeed(w, "ok", agent_output_text(a.output),
                    [obs[w] EXCEPT !.agent = "returned"], <<"agent">> \o a.tools)
  /\ UNCHANGED <<settings, portfolio, now, files, writes, schedVars, cone, result, toolVars>>

\* FALLBACK_SEISMIC without the test of the footprint (line 153): an absent
\* footprint is rendered as one that covers nothing
SeismicUnguarded(w) ==
  /\ pc[w] = "FALLBACK_SEISMIC"
  /\ \E resp \in EqResponses :
       LET eq == fetch_recent_earthquakes(45, "day", resp, now)
       IN  IF eq.raised
             THEN Advance(w, "FALLBACK_ALERTS", [obs[w] EXCEPT !.eq = "raised"], <<"usgs">>)
           ELSE \E exposure \in compute_portfolio_exposure(
                                  portfolio,
                                  IF eq.feature_union.present THEN eq.feature_union
                                  ELSE [present |-> FALSE, geometry |-> {}]) :
                  LET seen == IF eq.feature_union.present THEN "present" ELSE "absent"
                  IN  IF exposure.raised
                        THEN Advance(w, "FALLBACK_ALERTS",
                                     [obs[w] EXCEPT !.eq = seen, !.eq_exposure = "raised"],
                                     <<"usgs", "portfolio">>)
                      ELSE Succeed(w, "ok_eq", EqBriefing(eq, exposure.exposure, now),
                                   [obs[w] EXCEPT !.eq = seen, !.eq_exposure = "ok"],
                                   <<"usgs", "portfolio">>)
  /\ UNCHANGED <<settings, portfolio, now, files, writes, schedVars, cone, result, toolVars>>

\* lines 150-196: FALLBACK_SEISMIC
Seismic(w) ==
  /\ pc[w] = "FALLBACK_SEISMIC"
  /\ \E resp \in EqResponses :
       LET eq == fetch_recent_earthquakes(45, "day", resp, now)
       IN  IF eq.raised
             THEN Advance(w, "FALLBACK_ALERTS", [obs[w] EXCEPT !.eq = "raised"], <<"usgs">>)
           ELSE IF ~eq.feature_union.present
             THEN Advance(w, "FALLBACK_ALERTS", [obs[w] EXCEPT !.eq = "absent"], <<"usgs">>)
           ELSE \E exposure \in compute_portfolio_exposure(portfolio, eq.feature_union) :
                  IF exposure.raised
                    THEN Advance(w, "FALLBACK_ALERTS",
                                 [obs[w] EXCEPT !.eq = "present", !.eq_exposure = "raised"],
                                 <<"usgs", "portfolio">>)
                  ELSE Succeed(w, "ok_eq", EqBriefing(eq, exposure.exposure, now),
                               [obs[w] EXCEPT !.eq = "present", !.eq_exposure = "ok"],
                               <<"usgs", "portfolio">>)
  /\ UNCHANGED <<settings, portfolio, now, files, writes, schedVars, cone, result, toolVars>>

\* the area filter taken from settings.monitor_region as it is written, without
\* strip()
area_of_unstripped(monitor_region) ==
  IF Truthy(monitor_region) /\ Len(monitor_region) = 2
    THEN upper(monitor_region)
  ELSE NoneStr

\* lines 199-201: the area filter derived from settings.monitor_region
area_of(monitor_region) ==
  IF Truthy(monitor_region) /\ Len(strip(monitor_region)) = 2
    THEN upper(strip(monitor_region))
  ELSE NoneStr

\* FALLBACK_ALERTS without the test of the footprint (line 204): an absent
\* footprint is rendered as one that covers nothing
AlertsUnguarded(w) ==
  /\ pc[w] = "FALLBACK_ALERTS"
  /\ \E resp \in AlertResponses :
       LET area == area_of(settings.monitor_region)
           alerts == fetch_active_alerts(PyNone, area, resp, now)
           o == [obs[w] EXCEPT !.area = area]
       IN  IF alerts.raised
             THEN Advance(w, "FALLBACK_NEWS", [o EXCEPT !.alerts = "raised"], <<"nws">>)
           ELSE \E exposure \in compute_portfolio_exposure(
                                  portfolio,
                                  IF alerts.feature_union.present THEN alerts.feature_union
                                  ELSE [present |-> FALSE, geometry |-> {}]) :
                  LET seen == IF alerts.feature_union.present THEN "present" ELSE "absent"
                  IN  Advance(w, "FALLBACK_NEWS",
                              [o EXCEPT !.alerts = seen,
                                        !.alerts_exposure =
                                          IF exposure.raised THEN "raised" ELSE "ok"],
                              <<"nws", "portfolio">>)
  /\ UNCHANGED <<settings, portfolio, now, files, writes, schedVars, cone, result, toolVars>>

\* lines 198-230: FALLBACK_ALERTS
Alerts(w) ==
  /\ pc[w] = "FALLBACK_ALERTS"
  /\ \E resp \in AlertResponses :
       LET area == area_of(settings.monitor_region)
           alerts == fetch_active_alerts(PyNone, area, resp, now)
           o == [obs[w] EXCEPT !.area = area]
       IN  IF alerts.raised
             THEN Advance(w, "FALLBACK_NEWS", [o EXCEPT !.alerts = "raised"], <<"nws">>)
           ELSE IF ~alerts.feature_union.present
             THEN Advance(w, "FALLBACK_NEWS", [o EXCEPT !.alerts = "absent"], <<"nws">>)
           ELSE \E exposure \in compute_portfolio_exposure(portfolio, alerts.feature_union) :
                  IF exposure.raised
                    THEN Advance(w, "FALLBACK_NEWS",
                                 [o EXCEPT !.alerts = "present", !.alerts_exposure = "raised"],
                                 <<"nws", "portfolio">>)
                  ELSE \E events \in OrderingsOf(alerts.feature_union.properties.events) :
                         Succeed(w, "ok_alerts",
                                 AlertsBriefing(alerts, area, exposure.exposure, events, now),
                                 [o EXCEPT !.alerts = "present", !.alerts_exposure = "ok"],
                                 <<"nws", "portfolio">>)
  /\ UNCHANGED <<settings, portfolio, now, files, writes, schedVars, cone, result, toolVars>>

\* page_size of the news query
NewsPageSize == 10

\* FALLBACK_NEWS without the inner try (lines 232-235): a failed fetch leaves
\* run_cycle
NewsUncaught(w) ==
  /\ pc[w] = "FALLBACK_NEWS"
  /\ \E resp \in NewsResponses :
       LET fetched == fetch_live_news(<<"earthquake", "aftershock", "damage", "power outage">>,
                                      settings.monitor_region, NewsPageSize,
                                      settings.newsapi_key, resp, now)
       IN  IF fetched.raised
             THEN /\ pc' = [pc EXCEPT ![w] = "raised"]
                  /\ obs' = [obs EXCEPT ![w].news = fetched.error]
                  /\ calls' = [calls EXCEPT ![w] = @ \o <<"newsapi">>]
                  /\ UNCHANGED <<status, output_text, visited, outcome>>
           ELSE Succeed(w, "ok_news", NewsBriefing(fetched.articles, now),
                        [obs[w] EXCEPT !.news = "ok"], <<"newsapi">>)
  /\ UNCHANGED <<settings, portfolio, now, files, writes, schedVars, cone, result, toolVars>>

\* lines 231-259: FALLBACK_NEWS
News(w) ==
  /\ pc[w] = "FALLBACK_NEWS"
  /\ \E resp \in NewsResponses :
       LET fetched == fetch_live_news(<<"earthquake", "aftershock", "damage", "power outage">>,
                                      settings.monitor_region, NewsPageSize,
                                      settings.newsapi_key, resp, now)
           articles == IF fetched.raised THEN <<>> ELSE fetched.articles
       IN  Succeed(w, "ok_news", NewsBriefing(articles, now),
                   [obs[w] EXCEPT !.news = IF fetched.raised THEN fetched.error ELSE "ok"],
                   <<"newsapi">>)
  /\ UNCHANGED <<settings, portfolio, now, files, writes, schedVars, cone, result, toolVars>>

\* line 265: out_name = f"briefing_{status}_{ts}.md"
out_name(st, ts) == [status |-> st, ts |-> ts]

\* lines 261-271: write the briefing and return
Persist(w) ==
  /\ pc[w] = "DONE"
  /\ LET out_path == out_name(status[w], now)
     IN  /\ files' = (out_path :> output_text[w]) @@ files
         /\ writes' = writes + 1
         /\ outcome' = [outcome EXCEPT ![w] =
                          [returned |-> TRUE, output_path |-> out_path,
                           text |-> output_text[w], status |-> status[w]]]
  /\ pc' = [pc EXCEPT ![w] = "returned"]
  /\ UNCHANGED <<status, output_text, visited, calls, obs>>
  /\ UNCHANGED <<settings, portfolio, now, schedVars, cone, result, toolVars>>

\* ------------------------------------------------- schedule (agent.py 274-290)
\* max_instances as large as the executor's pool
max_instances_pool == NumWorkers

\* add_job(run_cycle, IntervalTrigger(...), id="leea-cycle", max_instances=1, coalesce=True)
max_instances == 1

coalesce == TRUE

\* lines 275-277, first half: run_once calls run_cycle on the main thread
ScheduleRunOnce ==
  /\ sched = "init"
  /\ settings.run_once
  /\ sched' = "run_once"
  /\ StartCycle(0)
  /\ UNCHANGED <<settings, portfolio, now, files, writes, due, instances, runs, submitted, cone, result, toolVars>>

\* lines 275-277, second half: run_cycle is over, by return or by exception
RunOnceReturn ==
  /\ sched = "run_once"
  /\ pc[0] \in {"returned", "raised"}
  /\ sched' = IF pc[0] = "returned" THEN "exited" ELSE "crashed"
  /\ UNCHANGED <<settings, portfolio, now, files, writes, due, instances, cycles, runs,
                 submitted, cycleVars, cone, result, toolVars>>

\* lines 279-282: the background scheduler starts
ScheduleStart ==
  /\ sched = "init"
  /\ ~settings.run_once
  /\ sched' = "started"
  /\ UNCHANGED <<settings, portfolio, now, files, writes, due, instances, cycles, runs,
                 submitted, cycleVars, cone, result, toolVars>>

\* a fire time of the interval trigger passes
IntervalElapses ==
  /\ sched = "started"
  /\ due < MaxDue
  /\ due' = due + 1
  /\ UNCHANGED <<settings, portfolio, now, files, writes, sched, instances, cycles, runs,
                 submitted, cycleVars, cone, result, toolVars>>

\* the pool thread that takes the next job run
FreeThread == CHOOSE t \in Pool : pc[t] = "idle" /\ \A u \in Pool : pc[u] = "idle" => t <= u

\* the scheduler thread processes the due fire times of the job: with coalesce they
\* count as one; the run is submitted unless max_instances instances are running,
\* and is skipped otherwise
ProcessJobs ==
  /\ sched = "started"
  /\ due > 0
  /\ due' = 0
  /\ IF instances < max_instances /\ \E t \in Pool : pc[t] = "idle"
       THEN /\ cycles < MaxCycles
            /\ instances' = instances + 1
            /\ runs' = [runs EXCEPT ![FreeThread] = IF coalesce THEN 1 ELSE due]
            /\ submitted' = "started"
            /\ StartCycle(FreeThread)
       ELSE /\ submitted' = "skipped"
            /\ UNCHANGED <<instances, runs, cycles, cycleVars>>
  /\ UNCHANGED <<settings, portfolio, now, files, writes, sched, cone, result, toolVars>>

\* the job run on pool thread w is over (run_cycle returned or raised): it serves
\* its next run time, or releases its instance
JobDone(w) ==
  /\ w \in Pool
  /\ pc[w] \in {"returned", "raised"}
  /\ IF runs[w] > 1 /\ cycles < MaxCycles
       THEN /\ runs' = [runs EXCEPT ![w] = @ - 1]
            /\ StartCycle(w)
            /\ UNCHANGED instances
       ELSE /\ runs' = [runs EXCEPT ![w] = 0]
            /\ instances' = instances - 1
            /\ pc' = [pc EXCEPT ![w] = "idle"]
            /\ status' = [status EXCEPT ![w] = PyNone]
            /\ output_text' = [output_text EXCEPT ![w] = <<>>]
            /\ visited' = [visited EXCEPT ![w] = <<>>]
            /\ calls' = [calls EXCEPT ![w] = <<>>]
            /\ obs' = [obs EXCEPT ![w] = NoObs]
            /\ outcome' = [outcome EXCEPT ![w] = NoOutcome]
            /\ UNCHANGED cycles
  /\ UNCHANGED <<settings, portfolio, now, files, writes, sched, due, submitted, cone, result, toolVars>>

\* lines 284-290: KeyboardInterrupt; scheduler.shutdown() waits for the running job
Shutdown ==
  /\ sched = "started"
  /\ sched' = "shutdown"
  /\ UNCHANGED <<settings, portfolio, now, files, writes, due, instances, cycles, runs,
                 submitted, cycleVars, cone, result, toolVars>>

ShutdownReturn ==
  /\ sched = "shutdown"
  /\ instances = 0
  /\ sched' = "exited"
  /\ UNCHANGED <<settings, portfolio, now, files, writes, due, instances, cycles, runs,
                 submitted, cycleVars, cone, result, toolVars>>

\* a second passes
Tick ==
  /\ now < MaxClock
  /\ now' = now + 1
  /\ UNCHANGED <<settings, portfolio, files, writes, schedVars, cycleVars, cone, result, toolVars>>

CycleStep(w) ==
  \/ BuildAgent(w)
  \/ Primary(w)
  \/ Seismic(w)
  \/ Alerts(w)
  \/ News(w)
  \/ Persist(w)

Next ==
  \/ ScheduleRunOnce
  \/ RunOnceReturn
  \/ ScheduleStart
  \/ IntervalElapses
  \/ ProcessJobs
  \/ Shutdown
  \/ ShutdownReturn
  \/ Tick
  \/ \E w \in Threads : CycleStep(w)
  \/ \E w \in Threads : JobDone(w)

Spec == Init /\ [][Next]_vars

\* ------------------------------------------------- compute_portfolio_exposure alone
\* the cells of the portfolio files the function is applied to
LatCells == {NumCell(0), NumCell(1), TextCell}

LonCells == {NumCell(0), BlankCell}

TivCells == {NumCell(-1), NumCell(1), NumCell(2), TextCell}

\* rows number themselves: PropertyID is the row's place in the file
NumberRows(cells) ==
  [i \in 1..Len(cells) |-> Row(i, cells[i][1], cells[i][2], cells[i][3])]

ExposurePortfolios ==
  {PortfolioUnreadable, PortfolioNoColumn}
  \cup {Csv(TRUE, required, NumberRows(c)) :
          c \in SeqsUpTo(LatCells \X LonCells \X TivCells, MaxRows)}

\* footprints: a Feature and its geometry
Footprint(pts) == [present |-> TRUE, geometry |-> pts]

Cones == {Footprint({<<0, 0>>}), Footprint({<<0, 0>>, <<0, 1>>}), Footprint({<<1, 1>>, <<0, 1>>})}

ExposureInit ==
  /\ settings = [run_once |-> TRUE, monitor_region |-> <<>>, newsapi_key |-> PyNone]
  /\ portfolio \in ExposurePortfolios
  /\ cone \in Cones
  /\ result = NoResult
  /\ call = NoCall
  /\ ret = NoRet
  /\ now = 0
  /\ files = <<>>
  /\ writes = 0
  /\ sched = "init"
  /\ due = 0
  /\ instances = 0
  /\ cycles = 0
  /\ submitted = "-"
  /\ IdleThreads

\* result = compute_portfolio_exposure(portfolio_csv, cone)
ComputeExposure ==
  /\ result = NoResult
  /\ result' \in compute_portfolio_exposure(portfolio, cone)
  /\ UNCHANGED <<settings, portfolio, now, files, writes, schedVars, cycleVars, cone, toolVars>>

ExposureNext == ComputeExposure

ExposureSpec == ExposureInit /\ [][ExposureNext]_vars

\* the function returned a summary
Computed == result # NoResult /\ ~result.raised

\* the rows the function scores, and those of them inside the footprint
Scored == dropna(CoerceAll(portfolio.rows))

ExposedRows == SelectSeq(Scored, LAMBDA r : IsExposed(cone.geometry, r))

\* ------------------------------------------------- properties of run_cycle
Order == <<"PRIMARY", "FALLBACK_SEISMIC", "FALLBACK_ALERTS", "FALLBACK_NEWS">>

Count(seq, x) == Cardinality({i \in 1..Len(seq) : seq[i] = x})

Over(w) == pc[w] \in {"returned", "raised"}

NewsFailed(w) == obs[w].news \in {"NEWSAPI_KEY", "http", "NewsAPI error"}

AllThreeFailed(w) ==
  obs[w].eq = "raised" /\ obs[w].alerts = "raised" /\ NewsFailed(w)

ArticleBulletTexts == {"- {} - {} {}", "- [{}]({}) - {} {}"}

Malformed(csv) == ~csv.readable \/ required \ csv.columns # {}

\* C1: once executor.invoke has raised, whatever the three fallback sources do,
\* the cycle never stops short of its return (it is never left by an exception,
\* every state before the return has a next step, and the path is at most the
\* four states and DONE), it returns exactly one outcome, and that outcome's
\* status is ok_news when the seismic, alerts and news fetches all failed.
C1_TerminalGuarantee ==
  \A w \in Threads :
    obs[w].agent = "raised" =>
      /\ pc[w] \in {"FALLBACK_SEISMIC", "FALLBACK_ALERTS", "FALLBACK_NEWS", "DONE", "returned"}
      /\ pc[w] # "returned" => ENABLED CycleStep(w)
      /\ Len(visited[w]) <= Len(Order) + 1
      /\ pc[w] = "returned" =>
           /\ outcome[w].returned
           /\ Count(visited[w], "DONE") = 1
           /\ outcome[w].status \in {"ok_eq", "ok_alerts", "ok_news"}
           /\ AllThreeFailed(w) => outcome[w].status = "ok_news"

\* C1's case: a cycle returned after the agent and all three fetches failed
C1_AllSourcesFailed ==
  \E w \in Threads :
    /\ pc[w] = "returned"
    /\ obs[w].agent = "raised"
    /\ AllThreeFailed(w)
    /\ outcome[w].status = "ok_news"

\* C2: no exception of PRIMARY (building and invoking the agent), of
\* FALLBACK_SEISMIC or of FALLBACK_ALERTS leaves run_cycle.
C2_NoExceptionEscapes == \A w \in Threads : pc[w] # "raised"

\* C3: when the agent failed and the seismic fetch gave no footprint, the status
\* is never ok_eq, and the cycle ends with ok_alerts or ok_news.
C3_FallbackOrdering ==
  \A w \in Threads :
    (obs[w].agent = "raised" /\ obs[w].eq = "absent") =>
      /\ status[w] # "ok_eq"
      /\ pc[w] \in {"DONE", "returned"} => status[w] \in {"ok_alerts", "ok_news"}

\* C3's case: a cycle with an absent seismic footprint returned ok_alerts
C3_AbsentThenAlerts ==
  \E w \in Threads :
    /\ pc[w] = "returned"
    /\ obs[w].agent = "raised"
    /\ obs[w].eq = "absent"
    /\ outcome[w].status = "ok_alerts"

\* C4: the states attempted in a cycle are a prefix of PRIMARY, FALLBACK_SEISMIC,
\* FALLBACK_ALERTS, FALLBACK_NEWS, each once, followed by at most one DONE, and
\* a cycle that is over has reached DONE exactly once.
C4_OrderAndDoneOnce ==
  \A w \in Threads :
    LET v == visited[w]
        n == Len(v) - Count(v, "DONE")
    IN  /\ Count(v, "DONE") <= 1
        /\ n <= Len(Order)
        /\ \A i \in 1..n : v[i] = Order[i]
        /\ Over(w) => Count(v, "DONE") = 1

\* C5: the status ok goes with non-empty text only.
C5_PrimaryNeedsText ==
  \A w \in Threads : status[w] = "ok" => output_text[w] # <<>>

\* C6: when fetch_live_news raised, the cycle is not left by the exception: it is
\* at DONE or has returned, with status ok_news and a text that holds the
\* no-articles notice and no article item.
C6_NewsCannotFail ==
  \A w \in Threads :
    NewsFailed(w) =>
      /\ pc[w] \in {"DONE", "returned"}
      /\ status[w] = "ok_news"
      /\ NoArticlesLine \in Range(output_text[w])
      /\ \A l \in Range(output_text[w]) : l.text \notin ArticleBulletTexts
      /\ pc[w] = "returned" =>
           outcome[w].status = "ok_news" /\ outcome[w].text = output_text[w]

\* C6's case: a cycle returned whose news fetch found no API key
C6_NewsFetchRaised ==
  \E w \in Threads : pc[w] = "returned" /\ obs[w].news = "NEWSAPI_KEY"

\* C7: a portfolio that cannot be read or lacks a required column makes the
\* exposure computation fail wherever a footprint is present; the failure in
\* FALLBACK_SEISMIC leads to FALLBACK_ALERTS and never to ok_eq, the failure in
\* FALLBACK_ALERTS leads to FALLBACK_NEWS and never to ok_alerts; the exception
\* does not leave run_cycle, and the cycle returns a non-empty briefing.
C7_MalformedPortfolioRecoverable ==
  \A w \in Threads :
    /\ (Malformed(portfolio) /\ obs[w].eq = "present") => obs[w].eq_exposure = "raised"
    /\ (Malformed(portfolio) /\ obs[w].alerts = "present") => obs[w].alerts_exposure = "raised"
    /\ obs[w].eq_exposure = "raised" =>
         /\ pc[w] # "raised"
         /\ "FALLBACK_ALERTS" \in Range(visited[w])
         /\ status[w] # "ok_eq"
    /\ obs[w].alerts_exposure = "raised" =>
         /\ pc[w] # "raised"
         /\ "FALLBACK_NEWS" \in Range(visited[w])
         /\ status[w] \notin {"ok_eq", "ok_alerts"}
    /\ (pc[w] = "returned" /\ "raised" \in {obs[w].eq_exposure, obs[w].alerts_exposure}) =>
         outcome[w].returned /\ outcome[w].text # <<>>

\* C7's case: the exposure computation failed in both states and the cycle
\* returned the news briefing
C7_ExposureFailedTwice ==
  \E w \in Threads :
    /\ pc[w] = "returned"
    /\ Malformed(portfolio)
    /\ obs[w].eq_exposure = "raised"
    /\ obs[w].alerts_exposure = "raised"
    /\ outcome[w].status = "ok_news"

\* ------------------------------------------------- properties of compute_portfolio_exposure
\* C8: exposed value <= total value, 0 <= exposure_ratio <= 1, and the ratio is 0
\* when the total value is 0.
C8_ExposureBounded ==
  Computed =>
    LET e == result.exposure
    IN  /\ e.total_insured_value_exposed <= e.total_insured_value_total
        /\ 0 <= e.exposure_ratio[1]
        /\ e.exposure_ratio[1] <= e.exposure_ratio[2]
        /\ e.total_insured_value_total = 0 => e.exposure_ratio[1] = 0

\* C9: top_exposed holds exposed assets only, min(10, number exposed) of them, by
\* insured value descending, equal values in the order of the rows of the file.
C9_TopExposedStable ==
  Computed =>
    LET top == result.exposure.top_exposed
    IN  /\ \A i \in 1..Len(top) : \E r \in Range(ExposedRows) : top[i] = top_record(r)
        /\ Len(top) = Min2(10, Len(ExposedRows))
        /\ \A i, j \in 1..Len(top) :
             i < j => /\ top[i].TotalInsuredValue >= top[j].TotalInsuredValue
                      /\ top[i].TotalInsuredValue = top[j].TotalInsuredValue
                           => top[i].PropertyID < top[j].PropertyID

\* ------------------------------------------------- properties of schedule
InFlight ==
  {w \in Threads :
     pc[w] \in {"build_agent", "invoke", "FALLBACK_SEISMIC", "FALLBACK_ALERTS",
                "FALLBACK_NEWS", "DONE"}}

\* C10: at most one run_cycle is in flight, the job has at most one running
\* instance, and no job run holds more than one run time: fire times that pass
\* during a cycle are skipped or served by one later run.
C10_OneCycleAtATime ==
  /\ Cardinality(InFlight) <= 1
  /\ instances <= 1
  /\ \A w \in Threads : runs[w] <= 1

\* C10's case: the scheduler skipped a job run because a cycle was in flight
C10_TriggerSkipped ==
  /\ submitted = "skipped"
  /\ Cardinality(InFlight) = 1
  /\ instances = 1

\* ------------------------------------------------- the hazard tools alone
\* longest feed whose features are chosen freely
MaxFeed == 2

\* largest magnitude, in tenths
MaxMag == 80

MagText == [kind |-> "text", v |-> 0]

QuakeShortCoordinates ==
  [gtype |-> "Point", coordinates |-> <<Coord(1)>>, mag |-> Mag(60), place |-> "D", url |-> ""]

QuakeLine ==
  [gtype |-> "LineString", coordinates |-> <<Coord(0), Coord(1)>>, mag |-> Mag(60),
   place |-> "E", url |-> ""]

QuakeTextMag ==
  [gtype |-> "Point", coordinates |-> <<Coord(2), Coord(2)>>, mag |-> MagText,
   place |-> "F", url |-> ""]

QuakeFeatures ==
  {QuakeA, QuakeBig, QuakeNoGeometry, QuakeBadCoordinate, QuakeShortCoordinates, QuakeLine,
   QuakeTextMag}

\* a feed of n point events
LongQuakeFeed(n) ==
  [i \in 1..n |-> Quake(i % (GridMax + 1), 0, Mag(45), ToString(i), "")]

\* answers of the USGS feed the function is applied to: short feeds of any
\* features, and feeds as long as the cap on the returned features and longer
EqToolResponses ==
  {[error |-> TRUE, features |-> <<>>]}
  \cup {[error |-> FALSE, features |-> f] : f \in SeqsUpTo(QuakeFeatures, MaxFeed)}
  \cup {[error |-> FALSE, features |-> LongQuakeFeed(n)] : n \in {EqCap, EqCap + 1}}

AlertPolyB ==
  [geometry |-> [kind |-> "poly", pts |-> {<<1, 1>>}],
   event |-> "Tornado Warning", severity |-> "Extreme"]

AlertFeatures == {AlertPoly, AlertPolyB, AlertNoGeometry, AlertBadGeometry}

\* a list of n alerts with polygons
LongAlertList(n) == [i \in 1..n |-> IF i % 2 = 1 THEN AlertPoly ELSE AlertPolyB]

AlertToolResponses ==
  {[error |-> TRUE, features |-> <<>>]}
  \cup {[error |-> FALSE, features |-> f] : f \in SeqsUpTo(AlertFeatures, MaxFeed)}
  \cup {[error |-> FALSE, features |-> LongAlertList(n)] : n \in {AlertsCap, AlertsCap + 1}}

\* the calls: fetch_recent_earthquakes as run_cycle calls it, fetch_active_alerts
\* with and without an area, and the radius of one event's buffer
EqCalls ==
  {[tool |-> "fetch_recent_earthquakes", min_magnitude |-> 45, window |-> "day", resp |-> r] :
     r \in EqToolResponses}

AlertCalls ==
  {[tool |-> "fetch_active_alerts", event |-> PyNone, area |-> a, resp |-> r] :
     a \in {NoneStr, <<"F", "L">>}, r \in AlertToolResponses}

BufferCalls ==
  {[tool |-> "_buffer_km_for_mag", feature |-> Quake(0, 0, m, "G", "")] :
     m \in {Mag(v) : v \in 0..MaxMag} \cup {NoMag, MagText}}

ToolInit ==
  /\ settings = [run_once |-> TRUE, monitor_region |-> <<>>, newsapi_key |-> PyNone]
  /\ portfolio = PortfolioGood
  /\ cone = NoCone
  /\ result = NoResult
  /\ call \in EqCalls \cup AlertCalls \cup BufferCalls
  /\ ret = NoRet
  /\ now = 0
  /\ files = <<>>
  /\ writes = 0
  /\ sched = "init"
  /\ due = 0
  /\ instances = 0
  /\ cycles = 0
  /\ submitted = "-"
  /\ IdleThreads

\* ret = fetch_recent_earthquakes(min_magnitude, window)
FetchRecentEarthquakes ==
  /\ call.tool = "fetch_recent_earthquakes"
  /\ ret = NoRet
  /\ ret' = fetch_recent_earthquakes(call.min_magnitude, call.window, call.resp, now)
  /\ UNCHANGED <<settings, portfolio, now, files, writes, schedVars, cycleVars, cone, result,
                 call>>

\* ret = fetch_active_alerts(event, area)
FetchActiveAlerts ==
  /\ call.tool = "fetch_active_alerts"
  /\ ret = NoRet
  /\ ret' = fetch_active_alerts(call.event, call.area, call.resp, now)
  /\ UNCHANGED <<settings, portfolio, now, files, writes, schedVars, cycleVars, cone, result,
                 call>>

\* earthquake_tool.py lines 77-82: km = _buffer_km_for_mag(mag) for one feature
BufferKmForMag ==
  /\ call.tool = "_buffer_km_for_mag"
  /\ ret = NoRet
  /\ ret' = [raised |-> FALSE, mag |-> mag_of(call.feature),
             km |-> buffer_km_for_mag(mag_of(call.feature))]
  /\ UNCHANGED <<settings, portfolio, now, files, writes, schedVars, cycleVars, cone, result,
                 call>>

ToolNext == FetchRecentEarthquakes \/ FetchActiveAlerts \/ BufferKmForMag

ToolSpec == ToolInit /\ [][ToolNext]_vars

\* the call returned a value
Returned == ret # NoRet /\ ~ret.raised

\* ------------------------------------------------- properties of the briefing files
\* C11: every write of a cycle creates a file of its own: the briefings directory
\* holds as many files as cycles have written, so no cycle wrote over the file of
\* an earlier one, and a cycle that returned wrote under its status and the second
\* of its write.
C11_NeverOverwritten ==
  /\ Cardinality(DOMAIN files) = writes
  /\ writes <= cycles
  /\ \A w \in Threads :
       pc[w] = "returned" =>
         /\ outcome[w].output_path \in DOMAIN files
         /\ outcome[w].output_path.status = outcome[w].status

\* ------------------------------------------------- properties of the hazard tools
\* the point events of a feed with two coordinates, and the alerts with a
\* geometry that can be read
PointEvents(feats) ==
  {i \in 1..Len(feats) : feats[i].gtype = "Point" /\ Len(feats[i].coordinates) >= 2}

ReadableAlerts(feats) == {i \in 1..Len(feats) : feats[i].geometry.kind = "poly"}

\* C12: the feature_union a fetch returns is absent exactly when no geometry was
\* merged, and otherwise is a Feature whose recorded count is the number of
\* geometries merged, at least 1.
C12_FootprintWhole ==
  Returned =>
    /\ call.tool = "fetch_recent_earthquakes" =>
         LET n == Cardinality(PointEvents(call.resp.features))
         IN  /\ ret.feature_union.present <=> n > 0
             /\ ret.feature_union.present =>
                  /\ ret.feature_union.properties.count = n
                  /\ ret.feature_union.properties.count >= 1
                  /\ ret.feature_union.geometry # {}
    /\ call.tool = "fetch_active_alerts" =>
         LET n == Cardinality(ReadableAlerts(call.resp.features))
         IN  /\ ret.feature_union.present <=> n > 0
             /\ ret.feature_union.present =>
                  /\ ret.feature_union.properties.merged_count = n
                  /\ ret.feature_union.properties.merged_count >= 1

\* C12's case: a list of alerts none of which has a readable geometry gave no
\* footprint
C12_NothingMerged ==
  /\ Returned
  /\ call.tool = "fetch_active_alerts"
  /\ call.resp.features # <<>>
  /\ ReadableAlerts(call.resp.features) = {}
  /\ ~ret.feature_union.present

\* ------------------------------------------------- more properties of run_cycle
\* the call made right after the first call of source c in a cycle's calls
CallAfter(seq, c) ==
  LET at == {i \in 1..Len(seq) : seq[i] = c}
  IN  IF at = {} \/ SetMin(at) = Len(seq) THEN "-" ELSE seq[SetMin(at) + 1]

\* C13: when the footprint fetched in FALLBACK_SEISMIC or in FALLBACK_ALERTS is
\* absent, compute_portfolio_exposure is not called in that state and the cycle
\* has gone on to the next state.
C13_NoExposureWithoutFootprint ==
  \A w \in Threads :
    /\ obs[w].eq = "absent" =>
         /\ obs[w].eq_exposure = "-"
         /\ CallAfter(calls[w], "usgs") # "portfolio"
         /\ "FALLBACK_ALERTS" \in Range(visited[w])
         /\ status[w] # "ok_eq"
    /\ obs[w].alerts = "absent" =>
         /\ obs[w].alerts_exposure = "-"
         /\ CallAfter(calls[w], "nws") # "portfolio"
         /\ "FALLBACK_NEWS" \in Range(visited[w])
         /\ status[w] # "ok_alerts"

\* C13's case: the alerts fetch gave no footprint and the cycle returned the
\* news briefing without a call of compute_portfolio_exposure
C13_AlertsAbsentThenNews ==
  \E w \in Threads :
    /\ pc[w] = "returned"
    /\ obs[w].alerts = "absent"
    /\ "portfolio" \notin Range(calls[w])
    /\ outcome[w].status = "ok_news"

\* ------------------------------------------------- more properties of the hazard tools
\* the point events whose two coordinates are numbers
ValidEvents(feats) ==
  {i \in PointEvents(feats) : feats[i].coordinates[1].ok /\ feats[i].coordinates[2].ok}

\* C14: whatever features the source answers with, the aggregation does not fail:
\* features without a usable geometry are skipped and the footprint is the union
\* of the geometries of the others (absent when there is none).
C14_BadGeometrySkipped ==
  (ret # NoRet /\ call.tool \in {"fetch_recent_earthquakes", "fetch_active_alerts"}
     /\ ~call.resp.error) =>
    /\ ~ret.raised
    /\ call.tool = "fetch_recent_earthquakes" =>
         LET feats == call.resp.features
             valid == ValidEvents(feats)
         IN  /\ ret.feature_union.present <=> valid # {}
             /\ ret.feature_union.present =>
                  ret.feature_union.geometry =
                    UNION {buffer(feats[i].coordinates[1].v, feats[i].coordinates[2].v,
                                  buffer_km_for_mag(mag_of(feats[i]))) : i \in valid}
    /\ call.tool = "fetch_active_alerts" =>
         LET feats == call.resp.features
             valid == ReadableAlerts(feats)
         IN  /\ ret.feature_union.present <=> valid # {}
             /\ ret.feature_union.present =>
                  ret.feature_union.geometry = UNION {feats[i].geometry.pts : i \in valid}

\* ------------------------------------------------- the area filter of FALLBACK_ALERTS
\* the "area" parameter of the alerts query of thread w's cycle
AreaSent(w) == build_params(PyNone, obs[w].area).area

\* C15 as stated: an area filter is sent only if settings.monitor_region is
\* exactly two characters long.
C15_AreaOnlyIfTwoChars ==
  \A w \in Threads :
    (obs[w].alerts # "-" /\ AreaSent(w) # NoneStr) => Len(settings.monitor_region) = 2

\* C15, amended: an area filter is sent exactly when settings.monitor_region
\* without its leading and trailing whitespace is two characters long, and the
\* filter is those two characters in upper case.
C15_AreaIfTwoCharsStripped ==
  \A w \in Threads :
    obs[w].alerts # "-" =>
      LET region == settings.monitor_region
          core == {i \in 1..Len(region) : region[i] # " "}
          inner == IF core = {} THEN <<>> ELSE SubSeq(region, SetMin(core), SetMax(core))
      IN  /\ AreaSent(w) # NoneStr <=> Len(inner) = 2
          /\ AreaSent(w) # NoneStr => AreaSent(w) = upper(inner)

\* C15's case: the region is a two-letter code after a blank, and the alerts
\* query of a cycle carried the code as its area
C15_PaddedCodeSent ==
  \E w \in Threads :
    /\ obs[w].alerts # "-"
    /\ settings.monitor_region = <<" ", "f", "l">>
    /\ AreaSent(w) = <<"F", "L">>

\* ------------------------------------------------- the sections of a briefing
HasSection(text, headings) == \E i \in 1..Len(text) : text[i].text \in headings

\* the statuses the fallback states set
FallbackStatuses == {"ok_eq", "ok_alerts", "ok_news"}

\* C16: a briefing written by a fallback state has the sections Event Status,
\* Intelligence and Next Actions, and the section Exposure exactly when exposure
\* was computed in the state that wrote it (ok_eq, ok_alerts).
C16_FixedSections ==
  \A w \in Threads :
    status[w] \in FallbackStatuses =>
      /\ HasSection(output_text[w], {"## Event Status"})
      /\ HasSection(output_text[w], {"## Intelligence", "## Intelligence (recent coverage)"})
      /\ HasSection(output_text[w], {"## Next Actions"})
      /\ HasSection(output_text[w], {"## Exposure"}) <=> status[w] \in {"ok_eq", "ok_alerts"}

\* ------------------------------------------------- more properties of compute_portfolio_exposure
\* the rows of the file, by their place, whose two coordinates are numbers; those
\* of them inside the footprint; and a row's insured value, 0 when it is no number
NumericCoords ==
  {i \in 1..Len(portfolio.rows) :
     portfolio.rows[i].Latitude.text = "num" /\ portfolio.rows[i].Longitude.text = "num"}

InsideCone ==
  {i \in NumericCoords :
     <<portfolio.rows[i].Longitude.v, portfolio.rows[i].Latitude.v>> \in cone.geometry}

ValueOf(i) ==
  IF portfolio.rows[i].TotalInsuredValue.text = "num"
    THEN portfolio.rows[i].TotalInsuredValue.v
  ELSE 0

RECURSIVE ValueSum(_)
ValueSum(S) ==
  IF S = {} THEN 0 ELSE LET i == SetMin(S) IN ValueOf(i) + ValueSum(S \ {i})

\* C17: the counts and sums of the result are those of the rows with numeric
\* coordinates only, a non-numeric insured value counting as 0, and no row
\* without numeric coordinates is among the exposed.
C17_BadCoordinatesDropped ==
  Computed =>
    LET e == result.exposure
    IN  /\ e.asset_count_total = Cardinality(NumericCoords)
        /\ e.asset_count_exposed = Cardinality(InsideCone)
        /\ e.total_insured_value_total = ValueSum(NumericCoords)
        /\ e.total_insured_value_exposed = ValueSum(InsideCone)
        /\ \A k \in 1..Len(e.top_exposed) :
             /\ e.top_exposed[k].PropertyID \in {portfolio.rows[i].PropertyID : i \in InsideCone}
             /\ \E i \in InsideCone :
                  /\ portfolio.rows[i].PropertyID = e.top_exposed[k].PropertyID
                  /\ e.top_exposed[k].TotalInsuredValue = ValueOf(i)

\* C17's case: a file with a row without numeric coordinates, which is dropped,
\* and an exposed row whose insured value is no number, which counts with 0
C17_DroppedAndDefaulted ==
  /\ Computed
  /\ Cardinality(NumericCoords) < Len(portfolio.rows)
  /\ \E i \in InsideCone : portfolio.rows[i].TotalInsuredValue.text = "text"
  /\ result.exposure.asset_count_exposed = 1
  /\ result.exposure.total_insured_value_exposed = 0

\* ------------------------------------------------- the caps on the returned features
\* seq is the first Len(seq) elements of full
IsPrefix(seq, full) == Len(seq) <= Len(full) /\ seq = SubSeq(full, 1, Len(seq))

\* C18: the features returned are the first 200 (earthquakes) or 50 (alerts) of
\* the fetched list, all of them when it is shorter, and the footprint is built
\* from all fetched features: its count is that of the whole list.
C18_CapNotOnFootprint ==
  Returned =>
    /\ call.tool = "fetch_recent_earthquakes" =>
         /\ Len(ret.features) = Min2(200, Len(call.resp.features))
         /\ IsPrefix(ret.features, call.resp.features)
         /\ ret.count = Len(call.resp.features)
         /\ ret.feature_union.present =>
              ret.feature_union.properties.count =
                Cardinality(PointEvents(call.resp.features))
    /\ call.tool = "fetch_active_alerts" =>
         /\ Len(ret.features) = Min2(50, Len(call.resp.features))
         /\ IsPrefix(ret.features, call.resp.features)
         /\ ret.count = Len(call.resp.features)
         /\ ret.feature_union.present =>
              ret.feature_union.properties.merged_count =
                Cardinality(ReadableAlerts(call.resp.features))

\* C18's case: a feed longer than the cap, whose footprint merged more events
\* than were returned
C18_CountOverCap ==
  /\ Returned
  /\ call.tool = "fetch_recent_earthquakes"
  /\ Len(call.resp.features) > 200
  /\ Len(ret.features) = 200
  /\ ret.feature_union.present
  /\ ret.feature_union.properties.count > 200

\* ------------------------------------------------- the radius of a seismic buffer
\* C19: the radius is 200 km from magnitude 7.0, 125 km from 6.0, 75 km from 5.0,
\* 50 km from 4.0 and 25 km below, a magnitude that is missing or no number counting
\* as 0; and no smaller magnitude has a larger radius.
C19_RadiusStepFunction ==
  (Returned /\ call.tool = "_buffer_km_for_mag") =>
    LET m == IF call.feature.mag.kind = "num" THEN call.feature.mag.v ELSE 0
    IN  /\ ret.mag = m
        /\ m >= 70 => ret.km = 200
        /\ (60 <= m /\ m < 70) => ret.km = 125
        /\ (50 <= m /\ m < 60) => ret.km = 75
        /\ (40 <= m /\ m < 50) => ret.km = 50
        /\ m < 40 => ret.km = 25
        /\ \A m1 \in 0..m : buffer_km_for_mag(m1) <= ret.km

\* C19's case: the radius of an event of magnitude exactly 7.0
C19_AtBreakpoint ==
  /\ Returned
  /\ call.tool = "_buffer_km_for_mag"
  /\ call.feature.mag = Mag(70)
  /\ ret.km = 200

\* ------------------------------------------------- what a cycle fetches and writes
\* the data source a call of a cycle reads: run_cycle's own fetches and the
\* agent's tools
SourceOf(c) ==
  IF c \in {"usgs", "Earthquake_Data_Tool"} THEN "seismic"
  ELSE IF c = "nws" THEN "alerts"
  ELSE IF c \in {"newsapi", "Live_News_Tool"} THEN "news"
  ELSE "-"

Sources(w) == {SourceOf(c) : c \in Range(calls[w])}

SeismicFailed(w) == obs[w].eq \in {"raised", "absent"} \/ obs[w].eq_exposure = "raised"

AlertsFailed(w) == obs[w].alerts \in {"raised", "absent"} \/ obs[w].alerts_exposure = "raised"

\* the status, file and text of a cycle that returned agree
FileAsReturned(w) ==
  pc[w] = "returned" =>
    /\ outcome[w].status = status[w]
    /\ outcome[w].output_path.status = outcome[w].status
    /\ outcome[w].output_path \in DOMAIN files
    /\ files[outcome[w].output_path] = outcome[w].text
    /\ outcome[w].text = output_text[w]

\* C20 as stated: no data source is read in a cycle before every strategy above
\* it failed, a cycle that ends ok read no seismic, alerts or news source, one
\* that ends ok_eq no alerts or news source, one that ends ok_alerts no news
\* source, and the returned status and text are those of the file written.
C20_NoLowerSourceTouched ==
  \A w \in Threads :
    /\ "seismic" \in Sources(w) => obs[w].agent = "raised"
    /\ "alerts" \in Sources(w) => obs[w].agent = "raised" /\ SeismicFailed(w)
    /\ "news" \in Sources(w) => obs[w].agent = "raised" /\ SeismicFailed(w) /\ AlertsFailed(w)
    /\ status[w] = "ok" => Sources(w) \cap {"seismic", "alerts", "news"} = {}
    /\ status[w] = "ok_eq" => Sources(w) \cap {"alerts", "news"} = {}
    /\ status[w] = "ok_alerts" => "news" \notin Sources(w)
    /\ FileAsReturned(w)

\* C20, amended: the same of the fetches run_cycle makes itself in its fallback
\* states (fetch_recent_earthquakes, fetch_active_alerts, fetch_live_news), each
\* made at most once; what the agent's tools read during PRIMARY is not counted.
C20_FallbackFetchOrder ==
  \A w \in Threads :
    LET made == Range(calls[w])
    IN  /\ "usgs" \in made => obs[w].agent = "raised"
        /\ "nws" \in made => obs[w].agent = "raised" /\ SeismicFailed(w)
        /\ "newsapi" \in made =>
             obs[w].agent = "raised" /\ SeismicFailed(w) /\ AlertsFailed(w)
        /\ status[w] = "ok" => made \cap {"usgs", "nws", "newsapi"} = {}
        /\ status[w] = "ok_eq" => made \cap {"nws", "newsapi"} = {}
        /\ status[w] = "ok_alerts" => "newsapi" \notin made
        /\ \A c \in {"usgs", "nws", "newsapi"} : Count(calls[w], c) <= 1
        /\ FileAsReturned(w)

\* C20's case: a cycle returned ok after the agent's tools read the seismic and
\* the news source, with no fetch of run_cycle's own
C20_AgentReadSources ==
  \E w \in Threads :
    /\ pc[w] = "returned"
    /\ outcome[w].status = "ok"
    /\ {"seismic", "news"} \subseteq Sources(w)
    /\ Range(calls[w]) \cap {"usgs", "nws", "newsapi"} = {}
    /\ files[outcome[w].output_path] = outcome[w].text

====
